---- MODULE Spec2Model ----
(***************************************************************************)
(* Model of the TodoMVC application in src/src/lib.rs (Seed framework):    *)
(* the Model struct, init, update (one action per Msg variant, each ending *)
(* with the LocalStorage write of line 195), and the render step that      *)
(* binds the edit input's ElRef and runs the after_next_render callbacks.  *)
(*                                                                         *)
(* Strings are sequences of one-character strings.  A Ulid is an integer,  *)
(* ordered as the 128-bit value that BTreeMap<Ulid, _> orders by.          *)
(* Option<T> is a sequence of length 0 or 1.                               *)
(***************************************************************************)
EXTENDS Integers, Sequences, FiniteSets, TLC

VARIABLES
    todos,              \* Model.todos: BTreeMap<Ulid, Todo>, a function on its keys
    new_todo_title,     \* Model.new_todo_title
    selected_todo,      \* Model.selected_todo: Option<SelectedTodo>
    filter,             \* Model.filter
    after_next_render,  \* callbacks queued by orders.after_next_render
    local_storage,      \* Option of the blob stored under STORAGE_KEY
    pc,                 \* "running", or "panicked" after an expect() failed
    msg                 \* Option<Msg>: the message the last step's update processed

vars == <<todos, new_todo_title, selected_todo, filter, after_next_render,
          local_storage, pc, msg>>

-----------------------------------------------------------------------------
(* Bounds *)

MaxUlid == 1        \* Ulids are 0..MaxUlid
MaxPending == 1     \* SelectTodo(Some) is not offered beyond this many queued callbacks

\* The values of a Ulid: a 48-bit millisecond timestamp followed by 80 random
\* bits, compared as one number.
Ulids == 0 .. MaxUlid

\* Input strings for the two text inputs: blank, padded, plain.  (The empty
\* draft is the one init and CreateTodo leave.)
Titles == { <<" ">>, <<" ", "a", " ">>, <<"b">> }

\* Hash paths of the URLs offered to init and Msg::UrlChanged.
Urls == { <<>>, <<"active">>, <<"completed">>, <<"unknownvalue">>,
          <<"active", "completed">> }

None == <<>>
Some(x) == <<x>>

-----------------------------------------------------------------------------
(* Pure helpers *)

IsWhitespace(c) == c = " "

\* str::trim (lines 119, 183): strips leading and trailing whitespace.
RECURSIVE TrimStart(_)
TrimStart(s) ==
    IF s # <<>> /\ IsWhitespace(Head(s)) THEN TrimStart(Tail(s)) ELSE s

RECURSIVE TrimEnd(_)
TrimEnd(s) ==
    IF s # <<>> /\ IsWhitespace(s[Len(s)])
    THEN TrimEnd(SubSeq(s, 1, Len(s) - 1))
    ELSE s

Trim(s) == TrimEnd(TrimStart(s))

\* Ulid::new() (line 121): the system clock's millisecond and fresh random
\* bits.  Neither is the program's to choose and the call keeps no record of
\* earlier results, so it may return any Ulid.
UlidNew == Ulids

\* Iteration of a BTreeMap: the keys in ascending order.
RECURSIVE Keys(_)
Keys(S) ==
    IF S = {} THEN <<>>
    ELSE LET k == CHOOSE x \in S : \A y \in S : x <= y
         IN  <<k>> \o Keys(S \ {k})

\* BTreeMap::into_iter / serialization order: <<key, value>> pairs by key.
Entries(m) ==
    LET ks == Keys(DOMAIN m) IN [i \in 1 .. Len(ks) |-> <<ks[i], m[ks[i]]>>]

\* BTreeMap::values(): the values in key order.
Values(m) ==
    LET ks == Keys(DOMAIN m) IN [i \in 1 .. Len(ks) |-> m[ks[i]]]

\* FromIterator for BTreeMap (collect, deserialization): later pairs win.
FromEntries(es) ==
    [k \in {es[i][1] : i \in 1 .. Len(es)} |->
        LET last == CHOOSE i \in 1 .. Len(es) :
                        /\ es[i][1] = k
                        /\ \A j \in 1 .. Len(es) : es[j][1] = k => j <= i
        IN  es[last][2]]

EmptyTodos == FromEntries(<<>>)

\* serde_json of the collection (line 195): a well-formed object, entries by key.
Serialize(m) == [well_formed |-> TRUE, json |-> Entries(m)]

\* A stored value that does not deserialize into BTreeMap<Ulid, Todo>: an
\* object cut off after its first entry.
Malformed ==
    [well_formed |-> FALSE,
     json |-> << <<0, [id |-> 0, title |-> <<"b">>, completed |-> FALSE]>> >>]

\* Load as it would be if it kept the entries read before the error.
LoadLenient(storage) ==
    IF storage # None
    THEN FromEntries(storage[1].json)
    ELSE EmptyTodos

\* LocalStorage::get(STORAGE_KEY).unwrap_or_default() (line 35).
Load(storage) ==
    IF storage # None /\ storage[1].well_formed
    THEN FromEntries(storage[1].json)
    ELSE EmptyTodos

\* From<Url> as it would be if only the first segment of the hash path were
\* looked at.
FilterFromFirstSegment(url) ==
    IF url # <<>> /\ Head(url) = "active" THEN "Active"
    ELSE IF url # <<>> /\ Head(url) = "completed" THEN "Completed"
    ELSE "All"

\* impl From<Url> for Filter (lines 78-86).
FilterFrom(url) ==
    IF url = <<"active">> THEN "Active"
    ELSE IF url = <<"completed">> THEN "Completed"
    ELSE "All"

-----------------------------------------------------------------------------
(* init (lines 31-41) *)

Init ==
    /\ local_storage \in {None, Some(Malformed)}
    /\ todos = Load(local_storage)
    /\ new_todo_title = <<>>
    /\ selected_todo = None
    /\ \E url \in Urls : filter = FilterFrom(url)
    /\ after_next_render = <<>>
    /\ pc = "running"
    /\ msg = None

-----------------------------------------------------------------------------
(* update (lines 110-196): one action per Msg variant *)

\* Save as it would be if the write were skipped when the collection did not
\* change.
SaveOnlyOnChange ==
    IF todos' = todos
    THEN UNCHANGED <<local_storage, pc>>
    ELSE \/ /\ local_storage' = Some(Serialize(todos'))
            /\ pc' = "running"
         \/ /\ local_storage' = local_storage
            /\ pc' = "panicked"

\* Save as it would be if the collection were serialized before the message
\* was applied.
SaveStale ==
    \/ /\ local_storage' = Some(Serialize(todos))
       /\ pc' = "running"
    \/ /\ local_storage' = local_storage
       /\ pc' = "panicked"

\* Save as it would be if a failed write were reported and the app went on.
SaveWarns ==
    \/ /\ local_storage' = Some(Serialize(todos'))
       /\ pc' = "running"
    \/ /\ local_storage' = local_storage
       /\ pc' = "running"

\* LocalStorage::insert(STORAGE_KEY, &model.todos).expect(..) (line 195):
\* the write replaces the blob, or fails and expect() panics.
Save ==
    \/ /\ local_storage' = Some(Serialize(todos'))
       /\ pc' = "running"
    \/ /\ local_storage' = local_storage
       /\ pc' = "panicked"

\* Msg::NewTodoTitleChanged(title) (lines 112-114)
NewTodoTitleChanged(title) ==
    /\ pc = "running"
    /\ new_todo_title' = title
    /\ UNCHANGED <<todos, selected_todo, filter, after_next_render>>
    /\ msg' = Some([type |-> "NewTodoTitleChanged", title |-> title])
    /\ Save

\* Msg::UrlChanged(subs::UrlChanged(url)) (lines 115-117)
UrlChanged(url) ==
    /\ pc = "running"
    /\ filter' = FilterFrom(url)
    /\ UNCHANGED <<todos, new_todo_title, selected_todo, after_next_render>>
    /\ msg' = Some([type |-> "UrlChanged", url |-> url])
    /\ Save

\* The Todo of lines 124-128 as it would be if its id field were not the key.
NewTodoNilId(id, title) == [id |-> 0, title |-> title, completed |-> FALSE]

\* The Todo built at lines 124-128.
NewTodo(id, title) == [id |-> id, title |-> title, completed |-> FALSE]

\* BTreeMap::insert (line 122): adds the key, or replaces its value.
Insert(m, k, v) == [x \in DOMAIN m \cup {k} |-> IF x = k THEN v ELSE m[x]]

\* BTreeMap::remove (lines 139, 185): no effect when the key is absent.
Remove(m, k) == [x \in DOMAIN m \ {k} |-> m[x]]

\* CreateTodo as it would be if it tested the draft itself, not the trimmed
\* draft, for emptiness.
CreateTodoTestsUntrimmed ==
    /\ pc = "running"
    /\ LET title == Trim(new_todo_title) IN
         IF new_todo_title # <<>>
         THEN /\ \E id \in UlidNew :
                    todos' = Insert(todos, id, NewTodo(id, title))
              /\ new_todo_title' = <<>>
         ELSE UNCHANGED <<todos, new_todo_title>>
    /\ UNCHANGED <<selected_todo, filter, after_next_render>>
    /\ msg' = Some([type |-> "CreateTodo"])
    /\ Save

\* Msg::CreateTodo (lines 118-132)
CreateTodo ==
    /\ pc = "running"
    /\ LET title == Trim(new_todo_title) IN
         IF title # <<>>
         THEN /\ \E id \in UlidNew :
                    todos' = Insert(todos, id, NewTodo(id, title))
              /\ new_todo_title' = <<>>
         ELSE UNCHANGED <<todos, new_todo_title>>
    /\ UNCHANGED <<selected_todo, filter, after_next_render>>
    /\ msg' = Some([type |-> "CreateTodo"])
    /\ Save

\* ToggleTodo as it would be if it marked the item completed instead of
\* negating the flag.
ToggleTodoSetsCompleted(id) ==
    /\ pc = "running"
    /\ todos' = IF id \in DOMAIN todos
                THEN [todos EXCEPT ![id].completed = TRUE]
                ELSE todos
    /\ UNCHANGED <<new_todo_title, selected_todo, filter, after_next_render>>
    /\ msg' = Some([type |-> "ToggleTodo", id |-> id])
    /\ Save

\* Msg::ToggleTodo(id) (lines 133-137)
ToggleTodo(id) ==
    /\ pc = "running"
    /\ todos' = IF id \in DOMAIN todos
                THEN [todos EXCEPT ![id].completed = ~todos[id].completed]
                ELSE todos
    /\ UNCHANGED <<new_todo_title, selected_todo, filter, after_next_render>>
    /\ msg' = Some([type |-> "ToggleTodo", id |-> id])
    /\ Save

\* Msg::RemoveTodo(id) (lines 138-140)
RemoveTodo(id) ==
    /\ pc = "running"
    /\ todos' = Remove(todos, id)
    /\ UNCHANGED <<new_todo_title, selected_todo, filter, after_next_render>>
    /\ msg' = Some([type |-> "RemoveTodo", id |-> id])
    /\ Save

\* todos.values().all(|todo| todo.completed) (lines 142, 241)
AllChecked(m) == \A k \in DOMAIN m : m[k].completed

\* CheckOrUncheckAll as it would be if it flipped each item's own flag.
CheckOrUncheckAllFlipsEach ==
    /\ pc = "running"
    /\ todos' = [k \in DOMAIN todos |->
                    [todos[k] EXCEPT !.completed = ~todos[k].completed]]
    /\ UNCHANGED <<new_todo_title, selected_todo, filter, after_next_render>>
    /\ msg' = Some([type |-> "CheckOrUncheckAll"])
    /\ Save

\* Msg::CheckOrUncheckAll (lines 141-146)
CheckOrUncheckAll ==
    /\ pc = "running"
    /\ LET all_checked == AllChecked(todos) IN
         todos' = [k \in DOMAIN todos |-> [todos[k] EXCEPT !.completed = ~all_checked]]
    /\ UNCHANGED <<new_todo_title, selected_todo, filter, after_next_render>>
    /\ msg' = Some([type |-> "CheckOrUncheckAll"])
    /\ Save

\* The filter closure of line 150, with the test inverted.
KeepsCompleted(entry) == entry[2].completed

\* The filter closure of line 150.
NotCompleted(entry) == ~entry[2].completed

\* mem::take(..).into_iter().filter(..).collect() (lines 148-151)
RetainActive(m) == FromEntries(SelectSeq(Entries(m), NotCompleted))

\* Msg::ClearCompleted (lines 147-152)
ClearCompleted ==
    /\ pc = "running"
    /\ todos' = RetainActive(todos)
    /\ UNCHANGED <<new_todo_title, selected_todo, filter, after_next_render>>
    /\ msg' = Some([type |-> "ClearCompleted"])
    /\ Save

\* ElRef::new() (line 155): a handle distinct from every other one.  Handles
\* are numbered 1, 2, .. in the order they are made after a render; Render
\* renames the one handle that outlives it (the session's) to 0.
NewElRef == Len(after_next_render) + 1

\* The SelectedTodo built at lines 157-161.
OpenSession(id, todo, input_element) ==
    Some([id |-> id, title |-> todo.title, input_element |-> input_element])

\* SelectTodo(Some(id)) as it would be if an absent id closed the session.
SelectTodoSomeClosesOnAbsent(id) ==
    /\ pc = "running"
    /\ IF id \in DOMAIN todos
       THEN /\ Len(after_next_render) < MaxPending
            /\ LET todo == todos[id]
                   input_element == NewElRef
               IN  /\ selected_todo' = OpenSession(id, todo, input_element)
                   /\ after_next_render' = Append(after_next_render,
                          [input_element |-> input_element,
                           title_length |-> Len(todo.title)])
       ELSE /\ selected_todo' = None
            /\ UNCHANGED after_next_render
    /\ UNCHANGED <<todos, new_todo_title, filter>>
    /\ msg' = Some([type |-> "SelectTodo", id |-> Some(id)])
    /\ Save

\* SelectTodo(Some(id)) as it would be if an absent id opened a session with
\* an empty title.
SelectTodoSomeOpensAbsent(id) ==
    /\ pc = "running"
    /\ Len(after_next_render) < MaxPending
    /\ LET todo == IF id \in DOMAIN todos THEN todos[id] ELSE NewTodo(id, <<>>)
           input_element == NewElRef
       IN  /\ selected_todo' = OpenSession(id, todo, input_element)
           /\ after_next_render' = Append(after_next_render,
                  [input_element |-> input_element,
                   title_length |-> Len(todo.title)])
    /\ UNCHANGED <<todos, new_todo_title, filter>>
    /\ msg' = Some([type |-> "SelectTodo", id |-> Some(id)])
    /\ Save

\* Msg::SelectTodo(Some(id)) (lines 153-172)
SelectTodoSome(id) ==
    /\ pc = "running"
    /\ IF id \in DOMAIN todos
       THEN /\ Len(after_next_render) < MaxPending
            /\ LET todo == todos[id]
                   input_element == NewElRef
               IN  /\ selected_todo' = OpenSession(id, todo, input_element)
                   /\ after_next_render' = Append(after_next_render,
                          [input_element |-> input_element,
                           title_length |-> Len(todo.title)])
       ELSE UNCHANGED <<selected_todo, after_next_render>>
    /\ UNCHANGED <<todos, new_todo_title, filter>>
    /\ msg' = Some([type |-> "SelectTodo", id |-> Some(id)])
    /\ Save

\* SelectTodo(None) as it would be if it left the session open.
SelectTodoNoneKeepsSession ==
    /\ pc = "running"
    /\ UNCHANGED <<todos, new_todo_title, selected_todo, filter, after_next_render>>
    /\ msg' = Some([type |-> "SelectTodo", id |-> None])
    /\ Save

\* Msg::SelectTodo(None) (lines 173-175)
SelectTodoNone ==
    /\ pc = "running"
    /\ selected_todo' = None
    /\ UNCHANGED <<todos, new_todo_title, filter, after_next_render>>
    /\ msg' = Some([type |-> "SelectTodo", id |-> None])
    /\ Save

\* Msg::SelectedTodoTitleChanged(title) (lines 176-180)
SelectedTodoTitleChanged(title) ==
    /\ pc = "running"
    /\ selected_todo' = IF selected_todo # None
                        THEN Some([selected_todo[1] EXCEPT !.title = title])
                        ELSE selected_todo
    /\ UNCHANGED <<todos, new_todo_title, filter, after_next_render>>
    /\ msg' = Some([type |-> "SelectedTodoTitleChanged", title |-> title])
    /\ Save

\* SaveTitle as it would be if the title were tested trimmed but stored as typed.
SaveTitleUntrimmed(m, session) ==
    LET title == Trim(session.title) IN
        IF title = <<>>
        THEN Remove(m, session.id)
        ELSE IF session.id \in DOMAIN m
             THEN [m EXCEPT ![session.id].title = session.title]
             ELSE m

\* SaveTitle as it would be if it inserted the item when its key is absent.
SaveTitleUpserts(m, session) ==
    LET title == Trim(session.title) IN
        IF title = <<>>
        THEN Remove(m, session.id)
        ELSE IF session.id \in DOMAIN m
             THEN [m EXCEPT ![session.id].title = title]
             ELSE Insert(m, session.id, NewTodo(session.id, title))

\* The body of `if let Some(selected_todo) = ..take()` (lines 183-190).
SaveTitle(m, session) ==
    LET title == Trim(session.title) IN
        IF title = <<>>
        THEN Remove(m, session.id)
        ELSE IF session.id \in DOMAIN m
             THEN [m EXCEPT ![session.id].title = title]
             ELSE m

\* Msg::SaveSelectedTodo (lines 181-192)
SaveSelectedTodo ==
    /\ pc = "running"
    /\ todos' = IF selected_todo # None THEN SaveTitle(todos, selected_todo[1]) ELSE todos
    /\ selected_todo' = None
    /\ UNCHANGED <<new_todo_title, filter, after_next_render>>
    /\ msg' = Some([type |-> "SaveSelectedTodo"])
    /\ Save

-----------------------------------------------------------------------------
(* view and the render step *)

\* The filter closure of view_todo_list (lines 257-261).
Visible(todo) ==
    CASE filter = "All" -> TRUE
      [] filter = "Active" -> ~todo.completed
      [] filter = "Completed" -> todo.completed

\* The ElRefs that view attaches to an element (lines 206, 265-267, 287-291):
\* the session's input_element, when a listed todo is the selected one.
ElRefsInView ==
    {selected_todo[i].input_element : i \in
        {j \in 1 .. Len(selected_todo) :
            \E k \in DOMAIN todos :
                Visible(todos[k]) /\ todos[k].id = selected_todo[j].id}}

\* completed_count (line 315)
CompletedCount(m) == Cardinality({k \in DOMAIN m : m[k].completed})

\* active_count (line 316)
ActiveCount(m) == Cardinality(DOMAIN m) - CompletedCount(m)

\* The span of view_footer (lines 321-325): the number in <strong>, then the
\* pieces of the formatted text.
ViewFooterCount(m) ==
    <<CompletedCount(m), " item", IF ActiveCount(m) = 1 THEN "" ELSE "s", " left">>

\* A render: view runs, the ElRefs in it are bound, and the queued
\* after_next_render callbacks (lines 164-170) run; input_element.get() is
\* None for a handle the view did not attach, and expect() panics.
Render ==
    /\ pc = "running"
    /\ pc' = IF \A i \in 1 .. Len(after_next_render) :
                    after_next_render[i].input_element \in ElRefsInView
             THEN "running"
             ELSE "panicked"
    /\ after_next_render' = <<>>
    /\ selected_todo' = [i \in 1 .. Len(selected_todo) |->
                            [selected_todo[i] EXCEPT !.input_element = 0]]
    /\ msg' = None
    /\ UNCHANGED <<todos, new_todo_title, filter, local_storage>>

\* The page is loaded again: init (lines 31-41) on the stored blob.
Reload ==
    /\ todos' = Load(local_storage)
    /\ new_todo_title' = <<>>
    /\ selected_todo' = None
    /\ \E url \in Urls : filter' = FilterFrom(url)
    /\ after_next_render' = <<>>
    /\ pc' = "running"
    /\ msg' = None
    /\ UNCHANGED local_storage

Next ==
    \/ \E title \in Titles : NewTodoTitleChanged(title)
    \/ \E url \in Urls : UrlChanged(url)
    \/ CreateTodo
    \/ \E id \in Ulids : ToggleTodo(id)
    \/ \E id \in Ulids : RemoveTodo(id)
    \/ CheckOrUncheckAll
    \/ ClearCompleted
    \/ \E id \in Ulids : SelectTodoSome(id)
    \/ SelectTodoNone
    \/ \E title \in Titles : SelectedTodoTitleChanged(title)
    \/ SaveSelectedTodo
    \/ Render
    \/ Reload

Spec == Init /\ [][Next]_vars

-----------------------------------------------------------------------------
(* Properties of update *)

IsMsg(m, type) == m # None /\ m[1].type = type

\* Position of key k in the iteration order of map m.
Pos(m, k) == Cardinality({x \in DOMAIN m : x <= k})

\* C1: after every update step whose write succeeded, whatever the message
\* (no-ops included), the blob under the storage key is the serialization of
\* the model's current collection and loads back as that collection.
C1_StoredBlobIsCollection ==
    (msg # None /\ pc = "running") =>
        /\ local_storage = Some(Serialize(todos))
        /\ Load(local_storage) = todos

\* A ToggleTodo of an absent id was processed on a non-empty collection and
\* the blob holds the collection.
C1_Witness ==
    /\ IsMsg(msg, "ToggleTodo")
    /\ msg[1].id \notin DOMAIN todos
    /\ todos # EmptyTodos
    /\ pc = "running"
    /\ local_storage = Some(Serialize(todos))

\* C2: CreateTodo with a draft that is non-empty after trimming adds exactly
\* one item, under a key the collection did not hold, with title the trimmed
\* draft and completed = FALSE, leaves every existing item as it was, and
\* empties the draft.
C2_CreateAddsOneItem ==
    [][(IsMsg(msg', "CreateTodo") /\ Trim(new_todo_title) # <<>>) =>
        /\ \E id \in DOMAIN todos' \ DOMAIN todos :
              /\ DOMAIN todos' = DOMAIN todos \cup {id}
              /\ todos'[id] = [id |-> id, title |-> Trim(new_todo_title),
                               completed |-> FALSE]
        /\ \A k \in DOMAIN todos : todos'[k] = todos[k]
        /\ new_todo_title' = <<>>]_vars

\* C3: CreateTodo with an empty or blank draft changes neither the collection
\* (so no key is added) nor the draft, the edit session or the filter.
C3_CreateBlankIsNoOp ==
    [][(IsMsg(msg', "CreateTodo") /\ Trim(new_todo_title) = <<>>) =>
        UNCHANGED <<todos, new_todo_title, selected_todo, filter>>]_vars

\* A CreateTodo was processed with a blank, non-empty draft while a session
\* was open, a filter was set and the collection was not empty.
C3_Witness ==
    /\ IsMsg(msg, "CreateTodo")
    /\ new_todo_title = <<" ">>
    /\ selected_todo # None
    /\ filter = "Active"
    /\ todos # EmptyTodos

\* C4: CreateTodo never allocates an identifier that the collection holds, so
\* a create never replaces an existing item.  (The claim also covers the
\* identifiers of removed items; this is the part about the current ones.)
C4_CreateNeverReusesKey ==
    [][(IsMsg(msg', "CreateTodo") /\ Trim(new_todo_title) # <<>>) =>
        /\ DOMAIN todos' # DOMAIN todos
        /\ \A k \in DOMAIN todos : todos'[k] = todos[k]]_vars

\* C5: every identifier CreateTodo allocates is greater than the identifiers
\* allocated before it, so the item a create adds is last in iteration order.
C5_CreatedItemIsLast ==
    [][(IsMsg(msg', "CreateTodo") /\ DOMAIN todos' # DOMAIN todos) =>
        \A id \in DOMAIN todos' \ DOMAIN todos :
            /\ \A k \in DOMAIN todos : k < id
            /\ Values(todos')[Len(Values(todos'))].id = id]_vars

\* C6: ToggleTodo(id) with id present negates that item's completed flag and
\* leaves its title, its id and every other item as they were; with id absent
\* it changes nothing in the model.
C6_ToggleFlipsOne ==
    [][\A id \in Ulids :
        (IsMsg(msg', "ToggleTodo") /\ msg'[1].id = id) =>
            IF id \in DOMAIN todos
            THEN /\ DOMAIN todos' = DOMAIN todos
                 /\ todos'[id].completed = ~todos[id].completed
                 /\ todos'[id].title = todos[id].title
                 /\ todos'[id].id = todos[id].id
                 /\ \A k \in DOMAIN todos \ {id} : todos'[k] = todos[k]
            ELSE UNCHANGED <<todos, new_todo_title, selected_todo, filter,
                             after_next_render>>]_vars

\* A ToggleTodo of a present id was processed and left that item incomplete
\* (so it was completed before) next to another item.
C6_Witness ==
    /\ IsMsg(msg, "ToggleTodo")
    /\ msg[1].id \in DOMAIN todos
    /\ ~todos[msg[1].id].completed
    /\ \E k \in DOMAIN todos : k # msg[1].id /\ todos[k].completed

\* C7: CheckOrUncheckAll makes every item incomplete when every item was
\* completed and makes every item completed otherwise; the keys, ids and
\* titles stay as they were.
C7_CheckAllOppositeOfUnanimous ==
    [][IsMsg(msg', "CheckOrUncheckAll") =>
        /\ DOMAIN todos' = DOMAIN todos
        /\ \A k \in DOMAIN todos :
              /\ todos'[k].id = todos[k].id
              /\ todos'[k].title = todos[k].title
              /\ todos'[k].completed = ~(\A j \in DOMAIN todos : todos[j].completed)]_vars

\* A CheckOrUncheckAll was processed and left two items incomplete: they were
\* all completed before it.
C7_Witness ==
    /\ IsMsg(msg, "CheckOrUncheckAll")
    /\ Cardinality(DOMAIN todos) >= 2
    /\ \A k \in DOMAIN todos : ~todos[k].completed

\* C8: ClearCompleted leaves exactly the items that were incomplete, each
\* unchanged and in the same relative order; a second ClearCompleted would
\* change nothing.
C8_ClearKeepsActiveInOrder ==
    [][IsMsg(msg', "ClearCompleted") =>
        /\ DOMAIN todos' = {k \in DOMAIN todos : ~todos[k].completed}
        /\ \A k \in DOMAIN todos' : todos'[k] = todos[k]
        /\ \A a, b \in DOMAIN todos' :
              (Pos(todos', a) < Pos(todos', b)) <=> (Pos(todos, a) < Pos(todos, b))
        /\ Len(Values(todos')) = Cardinality(DOMAIN todos')
        /\ \A i \in 1 .. Len(Values(todos')) : ~Values(todos')[i].completed
        /\ RetainActive(todos') = todos']_vars

\* A ClearCompleted was processed and left a non-empty collection.
C8_Witness ==
    /\ IsMsg(msg, "ClearCompleted")
    /\ todos # EmptyTodos
    /\ pc = "running"

\* C9: SaveSelectedTodo leaves no session open.  With a session open before
\* it: a title that is empty after trimming removes the session's item; any
\* other title becomes the item's title, trimmed, with the item's id and
\* completed flag as they were; every other item is unchanged.
C9_SaveWritesTrimmedOrRemoves ==
    [][IsMsg(msg', "SaveSelectedTodo") =>
        /\ selected_todo' = None
        /\ selected_todo # None =>
              LET session == selected_todo[1]
                  title == Trim(session.title)
              IN  /\ \A k \in DOMAIN todos \ {session.id} :
                        k \in DOMAIN todos' /\ todos'[k] = todos[k]
                  /\ DOMAIN todos' \subseteq DOMAIN todos
                  /\ IF title = <<>>
                     THEN session.id \notin DOMAIN todos'
                     ELSE session.id \in DOMAIN todos =>
                            /\ session.id \in DOMAIN todos'
                            /\ todos'[session.id].title = title
                            /\ todos'[session.id].id = todos[session.id].id
                            /\ todos'[session.id].completed =
                                   todos[session.id].completed]_vars

\* A SaveSelectedTodo was processed, no session is open, and a completed item
\* carries the title "a" next to another item.
C9_Witness ==
    /\ IsMsg(msg, "SaveSelectedTodo")
    /\ selected_todo = None
    /\ \E k \in DOMAIN todos :
          /\ todos[k].title = <<"a">>
          /\ todos[k].completed
          /\ \E j \in DOMAIN todos : j # k

\* C10: SelectTodo(Some(id)) with id present opens the one session, for id,
\* with that item's current title; with id absent it leaves the session, its
\* edited title and the callback queue as they were.
C10_SelectOpensOrIgnores ==
    [][\A id \in Ulids :
        (IsMsg(msg', "SelectTodo") /\ msg'[1].id = Some(id)) =>
            IF id \in DOMAIN todos
            THEN /\ Len(selected_todo') = 1
                 /\ selected_todo'[1].id = id
                 /\ selected_todo'[1].title = todos[id].title
            ELSE UNCHANGED <<selected_todo, after_next_render>>]_vars

\* A SelectTodo(Some(id)) for an absent id was processed while a session with
\* an edited title was open.
C10_Witness ==
    /\ IsMsg(msg, "SelectTodo")
    /\ msg[1].id # None
    /\ msg[1].id[1] \notin DOMAIN todos
    /\ selected_todo # None
    /\ selected_todo[1].id \in DOMAIN todos
    /\ selected_todo[1].title # todos[selected_todo[1].id].title

\* C11: SelectTodo(None) closes the session and leaves the collection as it
\* was; while no session is open SaveSelectedTodo leaves the collection as it
\* was; and only SelectTodo(Some(id)) opens a session.  So a cancelled edit
\* is never written by a later SaveSelectedTodo unless a new session was
\* opened first.
C11_CancelDiscardsEdit ==
    [][/\ (IsMsg(msg', "SelectTodo") /\ msg'[1].id = None) =>
              (selected_todo' = None /\ todos' = todos)
       /\ (IsMsg(msg', "SaveSelectedTodo") /\ selected_todo = None) =>
              (selected_todo' = None /\ todos' = todos)
       /\ (selected_todo = None /\ selected_todo' # None) =>
              (IsMsg(msg', "SelectTodo") /\ msg'[1].id # None)]_vars

\* A SelectTodo(None) was processed: no session is open and the collection
\* still holds an item.
C11_Witness ==
    /\ IsMsg(msg, "SelectTodo")
    /\ msg[1].id = None
    /\ selected_todo = None
    /\ todos # EmptyTodos
    /\ pc = "running"

\* C12: after UrlChanged(url) the filter is Active when the hash path is
\* exactly <<"active">>, Completed when it is exactly <<"completed">>, and All
\* for any other path, whatever the filter was; the collection, the draft
\* and the session stay as they were.
C12_FilterIsFunctionOfUrl ==
    [][IsMsg(msg', "UrlChanged") =>
        /\ (filter' = "Active") <=> (msg'[1].url = <<"active">>)
        /\ (filter' = "Completed") <=> (msg'[1].url = <<"completed">>)
        /\ (filter' = "All") <=> (msg'[1].url \notin {<<"active">>, <<"completed">>})
        /\ filter' \in {"All", "Active", "Completed"}
        /\ UNCHANGED <<todos, new_todo_title, selected_todo>>]_vars

\* A UrlChanged with a two-segment hash path was processed with a session
\* open and a draft typed, and the filter is All.
C12_Witness ==
    /\ IsMsg(msg, "UrlChanged")
    /\ msg[1].url = <<"active", "completed">>
    /\ filter = "All"
    /\ selected_todo # None
    /\ new_todo_title # <<>>

NoUsableBlob == local_storage = None \/ ~local_storage[1].well_formed

\* C14: while the storage key is missing or its value does not deserialize,
\* the running app (started by init on that storage) has an empty collection
\* and accepts messages.
C14_LoadNeverFails ==
    (pc = "running" /\ NoUsableBlob) =>
        /\ todos = EmptyTodos
        /\ ENABLED NewTodoTitleChanged(<<"b">>)
        /\ ENABLED CreateTodo

\* The app was started on a value that does not deserialize.
C14_Witness ==
    /\ local_storage = Some(Malformed)
    /\ pc = "running"
    /\ todos = EmptyTodos
    /\ filter = "Completed"

\* C15: messages are processed only while no expect() has failed, and an
\* update whose write did not store the new collection ends panicked: a
\* failed write is never followed by further message processing.
C15_FailedWriteIsFatal ==
    [][/\ msg' # None => pc = "running"
       /\ (msg' # None /\ local_storage' # Some(Serialize(todos'))) =>
              pc' = "panicked"]_vars

\* An update's write failed: the app is panicked and the blob is not the
\* collection the message left.
C15_Witness ==
    /\ msg # None
    /\ pc = "panicked"
    /\ local_storage # Some(Serialize(todos))
    /\ todos # EmptyTodos

\* C16: for every non-empty collection the footer shows the number of items
\* that are not completed, followed by " item left" when that number is 1
\* and " items left" otherwise.
C16_FooterShowsActiveCount ==
    todos # EmptyTodos =>
        LET n == Cardinality({k \in DOMAIN todos : ~todos[k].completed})
        IN  ViewFooterCount(todos) =
                <<n, " item", IF n = 1 THEN "" ELSE "s", " left">>

\* C17: every after_next_render callback finds the edit input of its session
\* in the render it follows, whatever messages were processed in between: a
\* render never ends in the "input element" panic.
C17_FocusEffectFindsInput ==
    [][(pc = "running" /\ msg' = None) => pc' = "running"]_vars

\* C18 as claimed: an open session refers to an item that is in the
\* collection.
C18_SessionItemPresent ==
    selected_todo # None => selected_todo[1].id \in DOMAIN todos

\* C18 as amended: a session is opened only for an item that is in the
\* collection, and it comes to refer to an absent item only when RemoveTodo
\* or ClearCompleted removes that item while the session stays open.
C18_SessionOpenedOnPresentItem ==
    [][(selected_todo' # None /\ selected_todo'[1].id \notin DOMAIN todos') =>
        /\ selected_todo # None
        /\ selected_todo[1].id = selected_todo'[1].id
        /\ \/ selected_todo[1].id \notin DOMAIN todos
           \/ IsMsg(msg', "RemoveTodo")
           \/ IsMsg(msg', "ClearCompleted")]_vars

\* A RemoveTodo was processed and the open session's item is absent.
C18_Witness ==
    /\ IsMsg(msg, "RemoveTodo")
    /\ selected_todo # None
    /\ selected_todo[1].id = msg[1].id
    /\ selected_todo[1].id \notin DOMAIN todos
    /\ pc = "running"

\* C19: every item of the collection has a title that is not empty and has
\* no leading or trailing whitespace, and an id field equal to its key.
C19_TitlesTrimmedIdsAreKeys ==
    \A k \in DOMAIN todos :
        /\ todos[k].title # <<>>
        /\ ~IsWhitespace(todos[k].title[1])
        /\ ~IsWhitespace(todos[k].title[Len(todos[k].title)])
        /\ todos[k].id = k

\* Two items, created from the drafts "b" and " a ", the second under key 1.
C19_Witness ==
    /\ Cardinality(DOMAIN todos) = 2
    /\ \E k \in DOMAIN todos : todos[k].title = <<"b">>
    /\ 1 \in DOMAIN todos
    /\ todos[1].title = <<"a">>
    /\ todos[1].id = 1

\* C20: every message other than CreateTodo leaves the set of keys equal to
\* or a subset of what it was (SaveSelectedTodo for a session whose item is
\* gone adds nothing), and NewTodoTitleChanged, SelectedTodoTitleChanged and
\* SelectTodo leave the collection as it was.
C20_OnlyCreateAddsKeys ==
    [][/\ (msg' # None /\ ~IsMsg(msg', "CreateTodo")) =>
              DOMAIN todos' \subseteq DOMAIN todos
       /\ (\/ IsMsg(msg', "NewTodoTitleChanged")
           \/ IsMsg(msg', "SelectedTodoTitleChanged")
           \/ IsMsg(msg', "SelectTodo")) => todos' = todos]_vars

\* A SelectedTodoTitleChanged was processed for a session whose item is gone:
\* the session holds a title that SaveSelectedTodo would write.
C20_Witness ==
    /\ IsMsg(msg, "SelectedTodoTitleChanged")
    /\ selected_todo # None
    /\ selected_todo[1].id \notin DOMAIN todos
    /\ Trim(selected_todo[1].title) # <<>>
    /\ pc = "running"

====
